---- MODULE Spec2Model ----
(***************************************************************************)
(* A model of nhk_podcast_feed.py: the feed transformer (transform_feed    *)
(* and its helpers) and the command pipeline around it (main).             *)
(*                                                                         *)
(* Text is a sequence of lexical units (Units below) instead of a sequence *)
(* of characters: every unit is a run of characters that the program's     *)
(* regular expressions treat as a whole, so a regular expression is        *)
(* modelled by what it matches on these sequences.  A Python int is a sign *)
(* and a sequence of decimal digits, so that no size is out of range.      *)
(***************************************************************************)
EXTENDS Integers, Sequences, FiniteSets, TLC

(***************************************************************************)
(* Bounds of the model.                                                    *)
(***************************************************************************)
\* The most items a source channel holds.
MaxItems == 2

\* The most runs of main in a row, each on the output of the one before.
MaxRuns == 2

\* The most elements of one name a source channel or a source root holds.
MaxCopies == 1

\* The longest exhaustively drawn piece of description text.
MaxLen == 3

\* The most zeros after the three leading digits of a Content-Length.
MaxZeros == 7

(***************************************************************************)
(* Program constants (nhk_podcast_feed.py:10-17).                          *)
(***************************************************************************)
BASE_URL == "https://nhkeasier.com"

BITRATE_BPS == 192000

(***************************************************************************)
(* Lexical units of description text.                                      *)
(***************************************************************************)
AUDIO == "<audio"
AUDIO_UC == "<AUDIO"
SRC == "src="
SRC_UC == "SRC="
HREF == "href="
DQ == "\""
SQ == "'"
SLASH == "/"
MP3 == ".mp3"
MP3_UC == ".MP3"
GT == ">"
SP == " "
QUOT == "&quot;"

Units == {AUDIO, AUDIO_UC, SRC, SRC_UC, HREF, DQ, SQ, SLASH, MP3, MP3_UC, GT, SP,
          QUOT, BASE_URL, "x", "y"}

\* str.lower() on one unit: what re.IGNORECASE compares.
Lower(c) ==
    CASE c = AUDIO_UC -> AUDIO
      [] c = SRC_UC -> SRC
      [] c = MP3_UC -> MP3
      [] OTHER -> c

IsQuote(c) == c \in {DQ, SQ}

Max(S) == CHOOSE m \in S : \A n \in S : n <= m

Min(S) == CHOOSE m \in S : \A n \in S : m <= n

(***************************************************************************)
(* html.unescape (line 24): character references become characters.        *)
(***************************************************************************)
unescape(text) == [i \in DOMAIN text |-> IF text[i] = QUOT THEN DQ ELSE text[i]]

(***************************************************************************)
(* fix_relative_urls (lines 33-39).                                        *)
(*   pattern     (src|href)=["']/(?!/)([^"']+)["']                         *)
(*   replacement \1="BASE_URL/\2"                                          *)
(* FixMatchEnd(t, p) is the position of the closing quote of the match     *)
(* that starts at p, or 0 when the pattern does not match at p.  The       *)
(* greedy group 2 runs up to the next quote; a run that reaches the end of *)
(* the text has no closing quote and every shorter run is followed by a    *)
(* character of the group, so there is no match.                           *)
(***************************************************************************)
FixMatchEnd(t, p) ==
    IF /\ p + 3 <= Len(t)
       /\ t[p] \in {SRC, HREF}
       /\ IsQuote(t[p + 1])
       /\ t[p + 2] = SLASH
       /\ t[p + 3] # SLASH
       /\ ~IsQuote(t[p + 3])
       /\ \E e \in (p + 4)..Len(t) : IsQuote(t[e])
    THEN Min({e \in (p + 4)..Len(t) : IsQuote(t[e])})
    ELSE 0

\* re.sub: leftmost non-overlapping matches, scanning from position p.
RECURSIVE FixFrom(_, _)
FixFrom(t, p) ==
    IF p > Len(t) THEN <<>>
    ELSE LET e == FixMatchEnd(t, p) IN
         IF e > 0
         THEN <<t[p], DQ, BASE_URL, SLASH>> \o SubSeq(t, p + 3, e - 1) \o <<DQ>>
              \o FixFrom(t, e + 1)
         ELSE <<t[p]>> \o FixFrom(t, p + 1)

fix_relative_urls(html_content) ==
    IF html_content = <<>> THEN html_content ELSE FixFrom(html_content, 1)

(***************************************************************************)
(* extract_mp3_url (lines 23-31).                                          *)
(*   pattern  <audio[^>]+src=["']?([^"'>\s]+\.mp3)   re.IGNORECASE         *)
(* None is the empty sequence (the caller tests "not mp3_url").            *)
(***************************************************************************)
InValueClass(c) == c \notin {DQ, SQ, GT, SP}

\* Where group 1 starts when src= is at k: after the optional quote.
ValueStart(t, k) == IF k + 1 <= Len(t) /\ IsQuote(t[k + 1]) THEN k + 2 ELSE k + 1

\* The end of the longest run of value characters that starts at v.
ValueRunEnd(t, v) ==
    Max({r \in (v - 1)..Len(t) : \A i \in v..r : InValueClass(t[i])})

\* Where group 1 ends: the greedy run gives characters back until ".mp3"
\* ends it; 0 when no ".mp3" in the run has a character before it.
GroupEnd(t, k) ==
    LET v == ValueStart(t, k)
        ends == {j \in (v + 1)..ValueRunEnd(t, v) : Lower(t[j]) = MP3}
    IN  IF ends = {} THEN 0 ELSE Max(ends)

\* The positions of src= at which a match that starts at p can go on:
\* [^>]+ takes at least one character, and no ">".
SrcPositions(t, p) ==
    {k \in (p + 2)..Len(t) :
        /\ Lower(t[k]) = SRC
        /\ \A i \in (p + 1)..(k - 1) : t[i] # GT
        /\ GroupEnd(t, k) > 0}

\* The greedy [^>]+ gives characters back from the right: the last src=.
PickSrc(S) == Max(S)

\* The positions at which a match starts.
MatchStarts(t) == {p \in 1..Len(t) : Lower(t[p]) = AUDIO /\ SrcPositions(t, p) # {}}

\* A variant of PickStart that takes the rightmost match.
PickLastStart(S) == Max(S)

\* re.search: the leftmost match.
PickStart(S) == Min(S)

\* match.group(1)
mp3_path(t) ==
    LET k == PickSrc(SrcPositions(t, PickStart(MatchStarts(t))))
    IN  SubSeq(t, ValueStart(t, k), GroupEnd(t, k))

\* lines 28-30
resolve(path) == IF path[1] = SLASH THEN <<BASE_URL>> \o path ELSE path

extract_mp3_url(description) ==
    LET unescaped == unescape(description) IN
    IF MatchStarts(unescaped) = {} THEN <<>> ELSE resolve(mp3_path(unescaped))

(***************************************************************************)
(* Python int: a sign and a magnitude in decimal digits, most significant  *)
(* first, without leading zeros; zero is [neg |-> FALSE, mag |-> <<0>>].   *)
(***************************************************************************)
DigitChars == <<"0", "1", "2", "3", "4", "5", "6", "7", "8", "9">>

IsDigitChar(c) == \E d \in 1..10 : DigitChars[d] = c

DigitOf(c) == (CHOOSE d \in 1..10 : DigitChars[d] = c) - 1

PyZero == [neg |-> FALSE, mag |-> <<0>>]

RECURSIVE StripZeros(_)
StripZeros(mag) ==
    IF Len(mag) > 1 /\ mag[1] = 0 THEN StripZeros(Tail(mag)) ELSE mag

\* int(s) of a str (line 47): an optional sign and one or more digits;
\* anything else raises ValueError.
IntParses(s) ==
    LET body == IF s # <<>> /\ s[1] \in {"-", "+"} THEN Tail(s) ELSE s
    IN  body # <<>> /\ \A i \in DOMAIN body : IsDigitChar(body[i])

int(s) ==
    LET body == IF s[1] \in {"-", "+"} THEN Tail(s) ELSE s
        mag == StripZeros([i \in DOMAIN body |-> DigitOf(body[i])])
    IN  [neg |-> s[1] = "-" /\ mag # <<0>>, mag |-> mag]

\* str(n) of an int (line 121)
str(n) ==
    (IF n.neg THEN <<"-">> ELSE <<>>) \o [i \in DOMAIN n.mag |-> DigitChars[n.mag[i] + 1]]

\* n <= 0
NonPositive(n) == n.neg \/ n.mag = <<0>>

\* mag * m + carry for a one-digit m, digit by digit from the right.
RECURSIVE MulSmall(_, _, _)
MulSmall(mag, m, carry) ==
    IF mag = <<>> THEN (IF carry = 0 THEN <<>> ELSE <<carry>>)
    ELSE LET d == mag[Len(mag)] * m + carry
         IN  MulSmall(SubSeq(mag, 1, Len(mag) - 1), m, d \div 10) \o <<d % 10>>

\* <<mag \div d, mag % d>> by long division.
RECURSIVE DivRem(_, _)
DivRem(mag, d) ==
    IF mag = <<>> THEN <<0, 0>>
    ELSE LET front == DivRem(SubSeq(mag, 1, Len(mag) - 1), d)
             cur == front[2] * 10 + mag[Len(mag)]
         IN  <<front[1] * 10 + cur \div d, cur % d>>

(***************************************************************************)
(* get_mp3_size (lines 41-50).  A response is what the HEAD request gives: *)
(* status "error" (urlopen raises), "timeout" (urlopen raises) or "ok",    *)
(* and then the Content-Length header as a string, <<>> when the header is *)
(* missing (None) or empty: both are false at line 46.                     *)
(***************************************************************************)
\* A variant of get_mp3_size that answers -1 when it learns no size.
get_mp3_size_or_minus_one(response) ==
    IF response.status = "ok" /\ IntParses(response.content_length)
    THEN int(response.content_length)
    ELSE [neg |-> TRUE, mag |-> <<1>>]

get_mp3_size(response) ==
    IF response.status # "ok" THEN PyZero
    ELSE IF response.content_length = <<>> THEN PyZero
    ELSE IF ~IntParses(response.content_length) THEN PyZero
    ELSE int(response.content_length)

(***************************************************************************)
(* format_duration (lines 52-65).  The quotient of line 58 is taken in     *)
(* floating point and truncated; it is the exact floor for every size      *)
(* whose product with 8 is below 2^53, which covers the sizes drawn here.  *)
(***************************************************************************)
\* The decimal digits of n >= 0.
RECURSIVE Decimal(_)
Decimal(n) ==
    IF n < 10 THEN <<DigitChars[n + 1]>> ELSE Decimal(n \div 10) \o <<DigitChars[(n % 10) + 1]>>

\* A variant of Pad2 that does not pad: f"{n}".
Unpadded(n) == Decimal(n)

\* f"{n:02}"
Pad2(n) == IF n < 10 THEN <<"0">> \o Decimal(n) ELSE Decimal(n)

total_seconds(file_size_bytes) == DivRem(MulSmall(file_size_bytes.mag, 8, 0), BITRATE_BPS)[1]

format_duration(file_size_bytes) ==
    IF NonPositive(file_size_bytes) THEN <<"0", "0", ":", "0", "0">>
    ELSE LET hours == total_seconds(file_size_bytes) \div 3600
             remainder == total_seconds(file_size_bytes) % 3600
             minutes == remainder \div 60
             seconds == remainder % 60
         IN  IF hours > 0
             THEN Pad2(hours) \o <<":">> \o Pad2(minutes) \o <<":">> \o Pad2(seconds)
             ELSE Pad2(minutes) \o <<":">> \o Pad2(seconds)

(***************************************************************************)
(* The feed document.  A source document is                                *)
(*   [wellformed, decls, channel]                                          *)
(* wellformed: the text is XML apart from its namespace declarations;      *)
(* decls: how many consecutive xmlns:itunes declarations the root carries; *)
(* channel: <<>> or <<c>>, c = [meta, items].  meta maps each iTunes       *)
(* channel field to the values of the elements of that name (for category, *)
(* of their text attribute).  An item is                                   *)
(*   [description, enclosure, duration]                                    *)
(* each the sequence of the item's children of that name: a description is *)
(* its text (<<>> when the element is empty), an enclosure is its          *)
(* attributes [url, type, length], a duration is its text.                 *)
(***************************************************************************)
Fields == {"author", "summary", "explicit", "category"}

\* lines 84-88 and 95
tags ==
    [author |-> "NHK Easier",
     summary |-> "Audio version of NHK Easier articles",
     explicit |-> "no",
     category |-> "News"]

VARIABLES
    pc,               \* where main is
    source,           \* the document at args.source_url
    tree,             \* <<>>, or <<channel>>: the parsed tree, every item with its id
    idx,              \* the position of the loop of line 98 in its list
    items_to_remove,  \* the ids collected by lines 101 and 110
    probed,           \* id -> the response its HEAD request got (history)
    transformed_xml,  \* <<>>, or <<c>>: the document transform_feed returned
    written,          \* <<>>, or <<c>>: what the writer has put out
    writer_calls,     \* how often the writer was invoked in this run (history)
    exit_code,        \* -1 while main runs
    failure,          \* "none", or what ended the run (history)
    run,              \* how many runs there were, this one included (history)
    net               \* which responses the audio host may give to a HEAD request

vars == <<pc, source, tree, idx, items_to_remove, probed, transformed_xml, written,
          writer_calls, exit_code, failure, run, net>>

(***************************************************************************)
(* transform_feed, lines 69-79.                                            *)
(***************************************************************************)
\* line 69: consecutive repeated xmlns:itunes declarations become the first.
dedup_namespaces(decls) == IF decls >= 2 THEN 1 ELSE decls

\* line 74: ET.fromstring raises ParseError on a repeated attribute.
Parses(doc) == doc.wellformed /\ dedup_namespaces(doc.decls) <= 1

\* The parsed items: each element is an object of its own, named by its position.
WithIds(items) ==
    [i \in DOMAIN items |->
        [id |-> i,
         description |-> items[i].description,
         enclosure |-> items[i].enclosure,
         duration |-> items[i].duration]]

WithoutIds(items) ==
    [i \in DOMAIN items |->
        [description |-> items[i].description,
         enclosure |-> items[i].enclosure,
         duration |-> items[i].duration]]

(***************************************************************************)
(* Lines 83-95: a field is added when channel.find gives None.             *)
(***************************************************************************)
\* A variant of complete_field that adds the field without looking for it.
append_field(values, default) == values \o <<default>>

complete_field(values, default) == IF values = <<>> THEN <<default>> ELSE values

complete_metadata(meta) == [f \in Fields |-> complete_field(meta[f], tags[f])]

(***************************************************************************)
(* The body of the loop of line 98 (lines 99-126) for one item.            *)
(***************************************************************************)
\* line 100
lacks_description(item) ==
    IF item.description = <<>> THEN TRUE ELSE item.description[1] = <<>>

\* line 105: the text of the first description element is replaced.
with_fixed_description(item) ==
    [item EXCEPT !.description = [@ EXCEPT ![1] = fix_relative_urls(@)]]

\* lines 116-121
new_enclosure(mp3_url, file_size) ==
    [url |-> mp3_url, type |-> "audio/mpeg", length |-> str(file_size)]

\* A variant of handle_enclosure that replaces the enclosures of the item.
replace_enclosure(enclosure, mp3_url, file_size) == <<new_enclosure(mp3_url, file_size)>>

handle_enclosure(enclosure, mp3_url, file_size) ==
    IF enclosure = <<>> THEN <<new_enclosure(mp3_url, file_size)>> ELSE enclosure

\* lines 124-126
handle_duration(duration, file_size) ==
    IF duration = <<>> THEN <<format_duration(file_size)>> ELSE duration

\* lines 113-126
with_podcast_elements(item, mp3_url, response) ==
    LET file_size == get_mp3_size(response) IN
    [item EXCEPT !.enclosure = handle_enclosure(@, mp3_url, file_size),
                 !.duration = handle_duration(@, file_size)]

\* A variant of remove_items that stops after the first marked item it removes.
RECURSIVE remove_first_marked(_, _)
remove_first_marked(items, ids) ==
    IF items = <<>> THEN <<>>
    ELSE IF Head(items).id \in ids THEN Tail(items)
    ELSE <<Head(items)>> \o remove_first_marked(Tail(items), ids)

\* lines 128-129
RECURSIVE remove_items(_, _)
remove_items(items, ids) ==
    IF items = <<>> THEN <<>>
    ELSE (IF Head(items).id \in ids THEN <<>> ELSE <<Head(items)>>)
         \o remove_items(Tail(items), ids)

(***************************************************************************)
(* The responses to the HEAD request of line 44.                           *)
(***************************************************************************)
Ok(content_length) == [status |-> "ok", content_length |-> content_length]

\* Every way a HEAD request ends: urlopen raises, the header is missing, the
\* header is no number, the header is a number.
FailedResponses ==
    {[status |-> "error", content_length |-> <<>>],
     [status |-> "timeout", content_length |-> <<>>],
     Ok(<<>>),
     Ok(<<"1", "k">>)}

ProbeResponses ==
    FailedResponses \cup {Ok(<<"0">>), Ok(<<"2", "1", "6", "0", "0", "0", "0">>)}

SizeResponses == {[status |-> "error", content_length |-> <<>>],
                  Ok(<<"2", "1", "6", "0", "0", "0", "0">>)}

RECURSIVE Zeros(_)
Zeros(k) == IF k = 0 THEN <<>> ELSE <<"0">> \o Zeros(k - 1)

Range(f) == {f[i] : i \in DOMAIN f}

DurResponses ==
    {Ok(<<a, b, c>> \o Zeros(k)) : a \in Range(DigitChars), b \in Range(DigitChars),
                                   c \in Range(DigitChars), k \in 0..MaxZeros}
    \cup {Ok(<<"-", "5">>), Ok(<<"2", "3", "9", "9", "9">>),
          Ok(<<"2", "1", "5", "9", "9", "9", "9">>),
          Ok(<<"8", "6", "3", "9", "9", "9", "9", "9">>),
          Ok(<<"8", "6", "3", "9", "9", "9", "9", "9", "9", "9">>)}

\* What the audio host may answer, by the name of its behaviour.
Responses(host) ==
    CASE host = "probe" -> ProbeResponses
      [] host = "dur" -> DurResponses
      [] OTHER -> SizeResponses

(***************************************************************************)
(* main (lines 134-151) and the steps of transform_feed.                   *)
(***************************************************************************)
\* line 141: fetch_feed returns the document.
FetchOk ==
    /\ pc = "start"
    /\ pc' = "fetched"
    /\ UNCHANGED <<source, tree, idx, items_to_remove, probed, transformed_xml, written,
                   writer_calls, exit_code, failure, run, net>>

\* line 141 raises; lines 149-151.
FetchFail ==
    /\ pc = "start"
    /\ pc' = "exit"
    /\ exit_code' = 1
    /\ failure' = "fetch"
    /\ UNCHANGED <<source, tree, idx, items_to_remove, probed, transformed_xml, written,
                   writer_calls, run, net>>

\* line 74 raises ParseError; lines 149-151.
ParseFail ==
    /\ pc = "fetched"
    /\ ~Parses(source)
    /\ pc' = "exit"
    /\ exit_code' = 1
    /\ failure' = "parse"
    /\ UNCHANGED <<source, tree, idx, items_to_remove, probed, transformed_xml, written,
                   writer_calls, run, net>>

\* A variant of NoChannel that ends the process with sys.exit().
NoChannelExitsZero ==
    /\ pc = "fetched"
    /\ Parses(source)
    /\ source.channel = <<>>
    /\ pc' = "exit"
    /\ exit_code' = 0
    /\ failure' = "channel"
    /\ UNCHANGED <<source, tree, idx, items_to_remove, probed, transformed_xml, written,
                   writer_calls, run, net>>

\* lines 77-79: sys.exit(1); SystemExit is no Exception and passes line 149.
NoChannel ==
    /\ pc = "fetched"
    /\ Parses(source)
    /\ source.channel = <<>>
    /\ pc' = "exit"
    /\ exit_code' = 1
    /\ failure' = "channel"
    /\ UNCHANGED <<source, tree, idx, items_to_remove, probed, transformed_xml, written,
                   writer_calls, run, net>>

\* lines 69-81
ParseOk ==
    /\ pc = "fetched"
    /\ Parses(source)
    /\ source.channel # <<>>
    /\ tree' = <<[meta |-> source.channel[1].meta,
                  items |-> WithIds(source.channel[1].items)]>>
    /\ pc' = "metadata"
    /\ UNCHANGED <<source, idx, items_to_remove, probed, transformed_xml, written,
                   writer_calls, exit_code, failure, run, net>>

\* lines 83-97
CompleteMetadata ==
    /\ pc = "metadata"
    /\ tree' = <<[tree[1] EXCEPT !.meta = complete_metadata(@)]>>
    /\ items_to_remove' = {}
    /\ idx' = 1
    /\ pc' = "items"
    /\ UNCHANGED <<source, probed, transformed_xml, written, writer_calls, exit_code,
                   failure, run, net>>

\* lines 99-102: the item has no description text.
SkipItem ==
    /\ pc = "items"
    /\ idx <= Len(tree[1].items)
    /\ lacks_description(tree[1].items[idx])
    /\ items_to_remove' = items_to_remove \cup {tree[1].items[idx].id}
    /\ idx' = idx + 1
    /\ UNCHANGED <<pc, source, tree, probed, transformed_xml, written, writer_calls,
                   exit_code, failure, run, net>>

\* lines 104-111: the repaired description has no audio reference.
DropItem ==
    /\ pc = "items"
    /\ idx <= Len(tree[1].items)
    /\ ~lacks_description(tree[1].items[idx])
    /\ LET item == with_fixed_description(tree[1].items[idx]) IN
       /\ extract_mp3_url(item.description[1]) = <<>>
       /\ tree' = <<[tree[1] EXCEPT !.items[idx] = item]>>
       /\ items_to_remove' = items_to_remove \cup {item.id}
    /\ idx' = idx + 1
    /\ UNCHANGED <<pc, source, probed, transformed_xml, written, writer_calls,
                   exit_code, failure, run, net>>

\* lines 104-126: the item gets its enclosure and duration; the HEAD request
\* of line 113 gets one of the responses of the host.
ProcessItem ==
    /\ pc = "items"
    /\ idx <= Len(tree[1].items)
    /\ ~lacks_description(tree[1].items[idx])
    /\ LET item == with_fixed_description(tree[1].items[idx])
           mp3_url == extract_mp3_url(item.description[1])
       IN  /\ mp3_url # <<>>
           /\ \E response \in Responses(net) :
                /\ tree' = <<[tree[1] EXCEPT
                                !.items[idx] = with_podcast_elements(item, mp3_url, response)]>>
                /\ probed' = probed @@ (item.id :> response)
    /\ idx' = idx + 1
    /\ UNCHANGED <<pc, source, items_to_remove, transformed_xml, written, writer_calls,
                   exit_code, failure, run, net>>

\* lines 128-132: the marked items leave the channel and the tree is serialized.
RemoveItems ==
    /\ pc = "items"
    /\ idx > Len(tree[1].items)
    /\ LET kept == remove_items(tree[1].items, items_to_remove) IN
       /\ tree' = <<[tree[1] EXCEPT !.items = kept]>>
       /\ transformed_xml' = <<[meta |-> tree[1].meta, items |-> WithoutIds(kept)]>>
    /\ pc' = "transformed"
    /\ UNCHANGED <<source, idx, items_to_remove, probed, written, writer_calls,
                   exit_code, failure, run, net>>

\* lines 144-148: the document goes to the file or to standard output.
WriteOk ==
    /\ pc = "transformed"
    /\ written' = transformed_xml
    /\ writer_calls' = writer_calls + 1
    /\ pc' = "exit"
    /\ exit_code' = 0
    /\ UNCHANGED <<source, tree, idx, items_to_remove, probed, transformed_xml, failure, run, net>>

\* lines 144-151: open or write raises OSError.
WriteFail ==
    /\ pc = "transformed"
    /\ writer_calls' = writer_calls + 1
    /\ pc' = "exit"
    /\ exit_code' = 1
    /\ failure' = "write"
    /\ UNCHANGED <<source, tree, idx, items_to_remove, probed, transformed_xml, written, run, net>>

\* main is run again on the document the last run wrote.  ET.tostring declares
\* the iTunes namespace once.
Rerun ==
    /\ pc = "exit"
    /\ exit_code = 0
    /\ run < MaxRuns
    /\ source' = [wellformed |-> TRUE, decls |-> 1, channel |-> written]
    /\ pc' = "start"
    /\ tree' = <<>>
    /\ idx' = 0
    /\ items_to_remove' = {}
    /\ probed' = <<>>
    /\ transformed_xml' = <<>>
    /\ written' = <<>>
    /\ writer_calls' = 0
    /\ exit_code' = -1
    /\ failure' = "none"
    /\ run' = run + 1
    /\ UNCHANGED net

\* One run of main.
Run ==
    \/ FetchOk
    \/ FetchFail
    \/ ParseFail
    \/ NoChannel
    \/ ParseOk
    \/ CompleteMetadata
    \/ SkipItem
    \/ DropItem
    \/ ProcessItem
    \/ RemoveItems
    \/ WriteOk
    \/ WriteFail

\* main starts on the document src with the audio host behaving as host.
Start(src, host) ==
    /\ pc = "start"
    /\ source = src
    /\ net = host
    /\ tree = <<>>
    /\ idx = 0
    /\ items_to_remove = {}
    /\ probed = <<>>
    /\ transformed_xml = <<>>
    /\ written = <<>>
    /\ writer_calls = 0
    /\ exit_code = -1
    /\ failure = "none"
    /\ run = 1

(***************************************************************************)
(* The inputs the specifications draw from.                                *)
(***************************************************************************)
SeqsUpTo(S, n) == UNION {[1..k -> S] : k \in 0..n}

Item(description, enclosure, duration) ==
    [description |-> description, enclosure |-> enclosure, duration |-> duration]

Doc(decls, meta, items) ==
    [wellformed |-> TRUE, decls |-> decls,
     channel |-> <<[meta |-> meta, items |-> items]>>]

NoMeta == [f \in Fields |-> <<>>]

\* Documents that end a run: not XML, and XML without a channel.
BadDocs ==
    {[wellformed |-> FALSE, decls |-> 1, channel |-> <<>>],
     [wellformed |-> TRUE, decls |-> 1, channel |-> <<>>]}

\* <audio src="/x.mp3">
SiteRelativeAudio == <<AUDIO, SP, SRC, DQ, SLASH, "x", MP3, DQ, GT>>

DescInputs ==
    {<<>>,
     SiteRelativeAudio,
     \* <audio src="x.mp3">
     <<AUDIO, SP, SRC, DQ, "x", MP3, DQ, GT>>,
     \* href="/">x
     <<HREF, DQ, SLASH, DQ, GT, "x">>,
     \* <audio href="/x src="/y.mp3">
     <<AUDIO, SP, HREF, DQ, SLASH, "x", SRC, DQ, SLASH, "y", MP3, DQ, GT>>,
     \* <AUDIO SRC=&quot;/x.MP3&quot;>
     <<AUDIO_UC, SP, SRC_UC, QUOT, SLASH, "x", MP3_UC, QUOT, GT>>}

OtherEnclosure ==
    [url |-> <<BASE_URL, SLASH, "y", MP3>>, type |-> "audio/mpeg", length |-> <<"7">>]

EmptyEnclosure == [url |-> <<>>, type |-> "", length |-> <<>>]

EnclosureInputs == {<<>>, <<OtherEnclosure>>, <<OtherEnclosure, EmptyEnclosure>>}

DurationInputs == {<<>>, << <<"0", "9", ":", "5", "9">> >>}

ItemInputs ==
    {Item(<<>>, <<>>, <<>>)}
    \cup {Item(<<d>>, <<>>, <<>>) : d \in DescInputs}
    \cup {Item(<<SiteRelativeAudio>>, e, d) : e \in EnclosureInputs, d \in DurationInputs}

\* Channel metadata: every field with up to MaxCopies elements.
MetaInputs == [Fields -> SeqsUpTo({"custom"}, MaxCopies)]

\* Description text: every text of up to MaxLen units, alone, inside an audio
\* tag, as the src value of an audio tag, and after one.
TextUnits == {AUDIO, SRC, HREF, DQ, SQ, SLASH, MP3, GT, SP, "y"}

TextContexts ==
    {<<>>,
     <<AUDIO, SP>>,
     <<AUDIO, SP, SRC, DQ, SLASH>>,
     <<AUDIO, SP, SRC, "x", MP3, SP>>,
     SiteRelativeAudio \o <<AUDIO, SP>>}

TextInputs == {pre \o mid : pre \in TextContexts, mid \in SeqsUpTo(TextUnits, MaxLen)}

(***************************************************************************)
(* Spec: runs of main, each on the output of the one before, over feeds    *)
(* that vary in their items, in their channel metadata, in their namespace *)
(* declarations and in what the audio host answers.                        *)
(***************************************************************************)
Init ==
    \/ \E items \in SeqsUpTo(ItemInputs, MaxItems) :
            Start(Doc(1, NoMeta, items), "sizes")
    \/ \E items \in SeqsUpTo({Item(<<SiteRelativeAudio>>, <<>>, <<>>)}, MaxItems) :
            Start(Doc(1, NoMeta, items), "probe")
    \/ \E meta \in MetaInputs, decls \in 0..(MaxCopies + 1),
          items \in SeqsUpTo({Item(<<SiteRelativeAudio>>, <<>>, <<>>)}, 1) :
            Start(Doc(decls, meta, items), "sizes")
    \/ \E doc \in BadDocs : Start(doc, "sizes")

Next == Run \/ Rerun

Spec == Init /\ [][Next]_vars

(***************************************************************************)
(* SpecText: one run of main over feeds of one item whose description is   *)
(* drawn exhaustively.                                                     *)
(***************************************************************************)
InitText ==
    \/ \E text \in TextInputs :
            Start(Doc(1, NoMeta, <<Item(<<text>>, <<>>, <<>>)>>), "sizes")
    \/ \E doc \in BadDocs : Start(doc, "sizes")

SpecText == InitText /\ [][Run]_vars

(***************************************************************************)
(* SpecDur: one run of main over a feed of one item whose audio has any of *)
(* a wide range of sizes.                                                  *)
(***************************************************************************)
InitDur ==
    \/ \E d \in {<<>>, <<SP>>, SiteRelativeAudio} :
            Start(Doc(1, NoMeta, <<Item(<<d>>, <<>>, <<>>)>>), "dur")
    \/ \E doc \in BadDocs : Start(doc, "dur")

SpecDur == InitDur /\ [][Run]_vars

(***************************************************************************)
(* What the claims speak of.                                               *)
(***************************************************************************)
\* The items of the source channel, and the item the tree holds under an id.
SourceItems == source.channel[1].items

TreeIds == {tree[1].items[j].id : j \in DOMAIN tree[1].items}

TreeItem(id) == tree[1].items[CHOOSE j \in DOMAIN tree[1].items : tree[1].items[j].id = id]

\* A URL is absolute when it starts with a scheme; of the units of the model
\* only the site base URL carries one.
IsAbsolute(url) == url # <<>> /\ url[1] = BASE_URL

\* The text holds an audio tag with a src value that ends in ".mp3": an
\* "<audio", later a "src=" in the same tag with something between them,
\* then, after an optional quote, characters of a value up to a ".mp3".
HasAudioRef(t) ==
    \E p \in DOMAIN t, k \in DOMAIN t, j \in DOMAIN t :
        /\ Lower(t[p]) = AUDIO
        /\ Lower(t[k]) = SRC
        /\ p + 2 <= k
        /\ \A i \in (p + 1)..(k - 1) : t[i] # GT
        /\ Lower(t[j]) = MP3
        /\ \E v \in {k + 1, k + 2} :
              /\ v < j
              /\ v = k + 2 => IsQuote(t[k + 1])
              /\ \A i \in v..j : t[i] \notin {DQ, SQ, GT, SP}

\* The item has no description element, no description text, or no audio
\* reference in its repaired and decoded description.
Unusable(item) ==
    IF item.description = <<>> THEN TRUE
    ELSE IF item.description[1] = <<>> THEN TRUE
    ELSE ~HasAudioRef(unescape(fix_relative_urls(item.description[1])))

(***************************************************************************)
(* C1: when transform_feed has returned, every item of the document has    *)
(* exactly one enclosure, and the url of that enclosure is non-empty and   *)
(* absolute.                                                               *)
(***************************************************************************)
C1_OneAbsoluteEnclosure ==
    pc = "transformed" =>
        \A i \in DOMAIN transformed_xml[1].items :
            LET enclosure == transformed_xml[1].items[i].enclosure IN
            /\ Len(enclosure) = 1
            /\ enclosure[1].url # <<>>
            /\ IsAbsolute(enclosure[1].url)

(***************************************************************************)
(* C2: a run of main on the output of a run of main writes that output     *)
(* again: no metadata field, enclosure or duration is added, no            *)
(* description changes and no item is removed, whatever the audio host     *)
(* answers.                                                                *)
(***************************************************************************)
C2_Idempotent ==
    (pc = "exit" /\ exit_code = 0 /\ run >= 2) => written = source.channel

C4_ProbeFailureIsNotFatal ==
    \A id \in DOMAIN probed :
        probed[id] \in FailedResponses =>
            /\ failure \in {"none", "write"}
            /\ id \notin items_to_remove
            /\ id \in TreeIds
            /\ idx > id
            /\ SourceItems[id].enclosure = <<>> =>
                    /\ Len(TreeItem(id).enclosure) = 1
                    /\ TreeItem(id).enclosure[1].length = <<"0">>
            /\ SourceItems[id].duration = <<>> =>
                    TreeItem(id).duration = << <<"0", "0", ":", "0", "0">> >>
            /\ pc \in {"transformed", "exit"} =>
                    \A later \in DOMAIN SourceItems :
                        (later > id /\ ~Unusable(SourceItems[later])) =>
                            later \in DOMAIN probed /\ later \in TreeIds

\* The first request timed out, the second got a header that is no number,
\* and both items are in the returned document.
C4_Witness ==
    /\ pc = "transformed"
    /\ DOMAIN probed = {1, 2}
    /\ probed[1].status = "timeout"
    /\ probed[2] = Ok(<<"1", "k">>)
    /\ TreeIds = {1, 2}
    /\ TreeItem(1).enclosure[1].length = <<"0">>

(***************************************************************************)
(* C5: a run that ends because the fetch failed, the document did not      *)
(* parse or the channel is absent exits with a non-zero status and never   *)
(* invokes the writer; the writer is invoked only once transform_feed has  *)
(* returned the document, and writes that document.                        *)
(***************************************************************************)
C5_AllOrNothing ==
    /\ (pc = "exit" /\ failure \in {"fetch", "parse", "channel"}) =>
            exit_code # 0 /\ writer_calls = 0 /\ written = <<>>
    /\ (pc = "exit" /\ (~Parses(source) \/ source.channel = <<>>)) =>
            exit_code # 0 /\ writer_calls = 0 /\ written = <<>>
    /\ writer_calls > 0 => transformed_xml # <<>>
    /\ written # <<>> => written = transformed_xml
    /\ (pc = "exit" /\ exit_code = 0) => written # <<>> /\ failure = "none"

\* A run has ended on a document without a channel.
C5_Witness ==
    /\ pc = "exit"
    /\ failure = "channel"
    /\ source.channel = <<>>
    /\ exit_code = 1
    /\ writer_calls = 0

(***************************************************************************)
(* C8: after the metadata step, each of author, summary, explicit and      *)
(* category that the source channel lacks is there once with its default   *)
(* ("NHK Easier", "Audio version of NHK Easier articles", "no", "News"),   *)
(* and each that the source channel has is as it was; so a field the       *)
(* source of a run holds at most once is held exactly once after the run,  *)
(* in every run of a sequence of runs.                                     *)
(***************************************************************************)
C8_Defaults ==
    [author |-> "NHK Easier",
     summary |-> "Audio version of NHK Easier articles",
     explicit |-> "no",
     category |-> "News"]

C8_MetadataCompletion ==
    (tree # <<>> /\ pc # "metadata") =>
        /\ \A f \in Fields :
            LET before == source.channel[1].meta[f]
                after == tree[1].meta[f]
            IN  /\ before = <<>> => after = <<C8_Defaults[f]>>
                /\ before # <<>> => after = before
                /\ Len(before) <= 1 => Len(after) = 1
        /\ transformed_xml # <<>> => transformed_xml[1].meta = tree[1].meta

\* A second run has written a channel with a field of the first source and a
\* field the first run added.
C8_Witness ==
    /\ run = 2
    /\ pc = "exit"
    /\ exit_code = 0
    /\ written[1].meta["author"] = <<"custom">>
    /\ written[1].meta["category"] = <<"News">>

(***************************************************************************)
(* C9: for every item that gets past the audio extraction, the enclosures  *)
(* it had stay as they were and so do its durations; an enclosure is made  *)
(* only when it had none, a duration only when it had none, and the        *)
(* duration is computed from the probed size also when the item has an     *)
(* enclosure of another length.                                            *)
(***************************************************************************)
C9_AdditiveSynthesis ==
    \A id \in DOMAIN probed :
        LET before == SourceItems[id]
            after == TreeItem(id)
        IN  /\ before.enclosure # <<>> => after.enclosure = before.enclosure
            /\ before.duration # <<>> => after.duration = before.duration
            /\ before.enclosure = <<>> => Len(after.enclosure) = 1
            /\ before.duration = <<>> =>
                    /\ Len(after.duration) = 1
                    /\ probed[id] = Ok(<<"2", "1", "6", "0", "0", "0", "0">>) =>
                            after.duration[1] = <<"0", "1", ":", "3", "0">>
                    /\ probed[id].status = "error" =>
                            after.duration[1] = <<"0", "0", ":", "0", "0">>

\* An item with an enclosure of length 7 and no duration got the duration of
\* the probed 2,160,000 bytes and kept its enclosure.
C9_Witness ==
    /\ pc = "transformed"
    /\ 1 \in DOMAIN probed
    /\ probed[1] = Ok(<<"2", "1", "6", "0", "0", "0", "0">>)
    /\ SourceItems[1].enclosure = <<OtherEnclosure>>
    /\ SourceItems[1].duration = <<>>
    /\ TreeItem(1).enclosure = <<OtherEnclosure>>
    /\ TreeItem(1).duration = << <<"0", "1", ":", "3", "0">> >>

(***************************************************************************)
(* C6: the duration made for a probed size.  The number of seconds is      *)
(* taken from the Content-Length header on another way than the program's: *)
(* floor(n * 8 / 192000) = floor(n / 24000) = floor((n \div 1000) / 24).   *)
(***************************************************************************)
RECURSIVE C6_Number(_)
C6_Number(chars) ==
    IF chars = <<>> THEN 0
    ELSE C6_Number(SubSeq(chars, 1, Len(chars) - 1)) * 10 + DigitOf(chars[Len(chars)])

C6_Seconds(header) ==
    IF Len(header) <= 3 THEN 0 ELSE C6_Number(SubSeq(header, 1, Len(header) - 3)) \div 24

C6_IsNumber(chars) ==
    chars # <<>> /\ \A i \in DOMAIN chars : IsDigitChar(chars[i])

\* The two characters of text from position i on are the two digits of n.
C6_TwoDigits(text, i, n) ==
    /\ IsDigitChar(text[i])
    /\ IsDigitChar(text[i + 1])
    /\ DigitOf(text[i]) * 10 + DigitOf(text[i + 1]) = n

\* text is MM:SS for ts seconds.
C6_MinutesSeconds(text, ts) ==
    /\ Len(text) = 5
    /\ text[3] = ":"
    /\ C6_TwoDigits(text, 1, ts \div 60)
    /\ C6_TwoDigits(text, 4, ts % 60)

\* text is H..H:MM:SS for ts seconds, the hours in `width` digits.
C6_HoursMinutesSeconds(text, ts, width) ==
    /\ Len(text) = width + 6
    /\ text[width + 1] = ":"
    /\ text[width + 4] = ":"
    /\ C6_IsNumber(SubSeq(text, 1, width))
    /\ C6_Number(SubSeq(text, 1, width)) = ts \div 3600
    /\ C6_TwoDigits(text, width + 2, (ts % 3600) \div 60)
    /\ C6_TwoDigits(text, width + 5, ts % 60)

\* The items whose duration was made from a Content-Length that is a number.
C6_Made ==
    {id \in DOMAIN probed :
        /\ probed[id].status = "ok"
        /\ IntParses(probed[id].content_length)
        /\ SourceItems[id].duration = <<>>}

C6_Examples ==
    \A id \in C6_Made :
        LET header == probed[id].content_length
            text == TreeItem(id).duration[1]
        IN  /\ header = <<"0">> => text = <<"0", "0", ":", "0", "0">>
            /\ header = <<"2", "1", "6", "0", "0", "0", "0">> =>
                    text = <<"0", "1", ":", "3", "0">>
            /\ header = <<"8", "6", "4", "0", "0", "0", "0", "0">> =>
                    text = <<"0", "1", ":", "0", "0", ":", "0", "0">>

C7_QuotedValues(t) ==
    {pe \in (DOMAIN t) \X (DOMAIN t) :
        /\ t[pe[1]] \in {SRC, HREF}
        /\ pe[1] + 2 <= pe[2]
        /\ IsQuote(t[pe[1] + 1])
        /\ t[pe[2]] = t[pe[1] + 1]
        /\ \A i \in (pe[1] + 2)..(pe[2] - 1) : t[i] # t[pe[1] + 1]}

C7_Value(t, pe) == SubSeq(t, pe[1] + 2, pe[2] - 1)

C7_SiteRelative(value) ==
    /\ value # <<>>
    /\ value[1] = SLASH
    /\ Len(value) >= 2 => value[2] # SLASH

C7_Untouched(value) ==
    /\ value # <<>>
    /\ \/ value[1] = BASE_URL
       \/ Len(value) >= 2 /\ value[1] = SLASH /\ value[2] = SLASH

C7_RelativeLinksRepaired ==
    (pc = "items" /\ idx = 2 /\ ~lacks_description(SourceItems[1])) =>
        LET before == SourceItems[1].description[1]
            stored == tree[1].items[1].description[1]
        IN  /\ \A pe \in C7_QuotedValues(stored) : ~C7_SiteRelative(C7_Value(stored, pe))
            /\ \A pe \in C7_QuotedValues(before) :
                    C7_Untouched(C7_Value(before, pe)) =>
                        \E qe \in C7_QuotedValues(stored) :
                            C7_Value(stored, qe) = C7_Value(before, pe)
            /\ 1 \in DOMAIN probed =>
                    tree[1].items[1].enclosure[1].url = extract_mp3_url(stored)

(***************************************************************************)
(* C10: an item without an enclosure whose repaired, decoded description   *)
(* has an audio tag with a src value that ends in ".mp3" gets one          *)
(* enclosure of type "audio/mpeg" whose length is the probed size in       *)
(* decimal and whose url comes from the first such tag: the first "<audio" *)
(* from which the pattern matches, within it the last src= that does and   *)
(* the longest value; the base URL is put before a value that starts with  *)
(* "/", "//" too, and any other value is taken as it is.  The text after   *)
(* the ">" that closes that tag has no part in the url.                    *)
(***************************************************************************)
C10_IsRef(t, p, k, v, j) ==
    /\ Lower(t[p]) = AUDIO
    /\ Lower(t[k]) = SRC
    /\ p + 2 <= k
    /\ \A i \in (p + 1)..(k - 1) : t[i] # GT
    /\ k < Len(t)
    /\ v \in {k + 1, k + 2}
    /\ v = k + 2 <=> IsQuote(t[k + 1])
    /\ v < j
    /\ Lower(t[j]) = MP3
    /\ \A i \in v..j : t[i] \notin {DQ, SQ, GT, SP}

C10_At(t, unit) == {i \in DOMAIN t : Lower(t[i]) = unit}

C10_RefFrom(t, p, k) ==
    \E j \in C10_At(t, MP3), v \in {k + 1, k + 2} : C10_IsRef(t, p, k, v, j)

C10_RefAt(t, p) == \E k \in C10_At(t, SRC) : C10_RefFrom(t, p, k)

\* Where the tag that starts at p ends: at its ">", or with the text.
C10_TagEnd(t, p) ==
    IF \E i \in p..Len(t) : t[i] = GT
    THEN CHOOSE i \in p..Len(t) : t[i] = GT /\ \A h \in p..(i - 1) : t[h] # GT
    ELSE Len(t)

C10_Length(response) ==
    IF response.status = "ok" /\ C6_IsNumber(response.content_length)
    THEN response.content_length
    ELSE <<"0">>

====
